---- MODULE Spec2Model ----
(***************************************************************************)
(* Model of src-tauri/src/lib.rs: the credential commands over the shared  *)
(* "credentials.json" store, and the tray / menu handlers over the main    *)
(* window.                                                                 *)
(*                                                                         *)
(* Credential commands are async commands without an await point: each    *)
(* runs on a worker thread of the async runtime, so several may be in      *)
(* flight at once and interleave between two store calls.  Every store     *)
(* call (build, set, get, clear, save) takes the store's mutex for its own *)
(* duration and is one atomic step.  StoreBuilder::build returns the store *)
(* that the plugin already holds for the path, or creates it and loads it  *)
(* from the file (a missing file leaves it empty); set and clear change    *)
(* the in-memory store; save writes the in-memory store to the file.  The  *)
(* plugin's debounced auto-save, which set and clear arm and save cancels, *)
(* writes that same in-memory store to the file and is left out: nothing   *)
(* reads the file back while the store is held in memory.                  *)
(***************************************************************************)
EXTENDS Naturals, Sequences, FiniteSets, Bags, TLC

VARIABLES
    pathOk,      \* the store path resolves, so build succeeds
    loaded,      \* the plugin holds the store for "credentials.json" in memory
    cache,       \* the in-memory store: key -> value
    fileExists,  \* credentials.json exists on disk
    disk,        \* the document in credentials.json
    calls,       \* bag of credential commands in flight
    ret,         \* the value returned by the step just taken (NoRet otherwise)
    excl,        \* history: the last save/clear that started with no other save/clear in flight
    urlMate,     \* history: the api_token argument of the call that last set server_url,
                 \* kept while some save is between its two set calls
    single,      \* history: the last set of api_token left the pair passed to one single
                 \* save call (TRUE after a clear and while a save is between its two sets)
    winExists,   \* a webview window labelled "main" exists
    visible,     \* the main window is visible
    focused,     \* the main window has input focus
    running,     \* the process is running
    exitCode,    \* exit code of the process once it has exited
    last,        \* the tray / menu event or window command just handled
    prev         \* the one handled before it

credVars == <<pathOk, loaded, cache, fileExists, disk, calls, ret, excl, urlMate, single>>
winVars == <<winExists, visible, focused, running, exitCode, last, prev>>
vars == <<credVars, winVars>>

(* ------------------------------ bounds -------------------------------- *)
\* number of credential commands that can be in flight at once
MaxCalls == 2
\* longest string passed as server_url or api_token
MaxLen == 1

(* ------------------------------ values -------------------------------- *)
Chars(n) == [i \in 1..n |-> "x"]
Strs == {Chars(n) : n \in 0..MaxLen}

\* serde_json::Value as stored under a key, and Option<Value> as read from it
Absent == [kind |-> "absent", s |-> <<>>]
StrVal(s) == [kind |-> "str", s |-> s]
NumVal == [kind |-> "num", s |-> <<>>]
Vals == {Absent, NumVal} \cup {StrVal(s) : s \in Strs}

Keys == {"server_url", "api_token"}
EmptyDoc == [k \in Keys |-> Absent]

\* Option<(String, String)>
NoneV == [some |-> FALSE, url |-> <<>>, token |-> <<>>]
SomeV(u, t) == [some |-> TRUE, url |-> u, token |-> t]

(* --------------------------- store plugin ----------------------------- *)
\* StoreBuilder::build: the store already held for the path, or a new one
\* loaded from the file; a file that is missing leaves the new store empty
OpenedCache == IF loaded THEN cache ELSE IF fileExists THEN disk ELSE EmptyDoc

\* StoreBuilder::build(..).map_err(..)?: fails only when the store path does not
\* resolve; an error reading the file is ignored
BuildMissingFileFails == pathOk /\ (loaded \/ fileExists)
BuildOk == pathOk

\* store.set(key, value)
StoreSet(doc, key, v) == [doc EXCEPT ![key] = v]

\* store.get(key): Option<Value>
StoreGet(doc, key) == doc[key]

\* store.clear()
StoreClearKeepsEntries(doc) == doc
StoreClear(doc) == EmptyDoc

\* .and_then(|v| v.as_str().map(|s| s.to_string())): Option<String>
AsStrNonEmpty(v) == IF v.kind = "str" /\ v.s # <<>> THEN v ELSE Absent
AsStr(v) == IF v.kind = "str" THEN v ELSE Absent

\* match (server_url, api_token) of load_credentials
MatchUrlAlone(u, t) ==
    IF u.kind = "str" THEN SomeV(u.s, IF t.kind = "str" THEN t.s ELSE <<>>) ELSE NoneV
MatchCredentials(u, t) ==
    IF u.kind = "str" /\ t.kind = "str" THEN SomeV(u.s, t.s) ELSE NoneV

\* what load_credentials reads from a document
LoadView(doc) ==
    MatchCredentials(AsStr(StoreGet(doc, "server_url")), AsStr(StoreGet(doc, "api_token")))

(* --------------------------- bookkeeping ------------------------------ *)
NoRet == [cmd |-> "none", ok |-> TRUE, val |-> NoneV, clean |-> FALSE]
Returned(cmd, ok, val, clean) == [cmd |-> cmd, ok |-> ok, val |-> val, clean |-> clean]

NoExcl == [cmd |-> "none", url |-> <<>>, token |-> <<>>, pre |-> NoneV, status |-> "none"]

MutPcs == {"save_set_token", "save_flush", "clear_flush"}
MutInFlight == \E c \in BagToSet(calls) : c.pc \in MutPcs

Call(pc, u, t, clean) == [pc |-> pc, url |-> u, token |-> t, clean |-> clean]
Replace(c, d) == (calls (-) SetToBag({c})) (+) SetToBag({d})
Remove(c) == calls (-) SetToBag({c})

\* a save or clear that starts disturbs every load in flight
Disturb(c) == [c EXCEPT !.clean = FALSE]

\* history kept when a save or clear starts / completes: the arguments of a
\* save that ran alone and succeeded, and what load_credentials would have
\* returned before a save that ran alone and failed
ExclAtStart(cmd, u, t) ==
    IF MutInFlight
    THEN [NoExcl EXCEPT !.cmd = "overlapped", !.status = "dirty"]
    ELSE [cmd |-> cmd, url |-> u, token |-> t,
          pre |-> IF cmd = "save" THEN LoadView(OpenedCache) ELSE NoneV,
          status |-> "running"]
ExclAtEnd(ok) ==
    IF excl.status = "running"
    THEN IF ok THEN [excl EXCEPT !.status = "ok", !.pre = NoneV]
               ELSE [excl EXCEPT !.status = "err", !.url = <<>>, !.token = <<>>]
    ELSE excl

(* ------------------------- save_credentials --------------------------- *)
\* lines 16-18: the command is invoked, builds the store and sets server_url.
\* build only fetches the store the plugin holds (loading it on first use), so
\* it is taken together with the first store call that follows it.
SaveCredentials(u, t) ==
    /\ running
    /\ BagCardinality(calls) < MaxCalls
    /\ IF BuildOk
       THEN /\ loaded' = TRUE
            /\ cache' = StoreSet(OpenedCache, "server_url", StrVal(u))
            /\ calls' = BagOfAll(Disturb, calls)
                          (+) SetToBag({Call("save_set_token", StrVal(u), StrVal(t), FALSE)})
            /\ excl' = ExclAtStart("save", u, t)
            /\ urlMate' = t
            /\ single' = TRUE
            /\ ret' = NoRet
       ELSE /\ ret' = Returned("save", FALSE, NoneV, FALSE)
            /\ UNCHANGED <<loaded, cache, calls, excl, urlMate, single>>
    /\ UNCHANGED <<pathOk, fileExists, disk, winVars>>

\* line 19: store.set("api_token", Value::String(api_token))
SaveSetToken(c) ==
    /\ running
    /\ c.pc = "save_set_token"
    /\ cache' = StoreSet(cache, "api_token", c.token)
    /\ single' = (StoreGet(cache, "server_url") = c.url \/ urlMate = c.token.s)
    /\ calls' = Replace(c, Call("save_flush", Absent, Absent, FALSE))
    /\ urlMate' = IF \E d \in BagToSet(calls') : d.pc = "save_set_token" THEN urlMate ELSE <<>>
    /\ ret' = NoRet
    /\ UNCHANGED <<pathOk, loaded, fileExists, disk, excl, winVars>>

\* store.save(): writes the in-memory store to the file, or fails and leaves it
StoreSave(ok) ==
    IF ok THEN disk' = cache /\ fileExists' = TRUE
          ELSE UNCHANGED <<disk, fileExists>>

\* lines 20-21: store.save().map_err(..)?; Ok(())
SaveFlush(c) ==
    /\ running
    /\ c.pc = "save_flush"
    /\ \E ok \in BOOLEAN :
          /\ StoreSave(ok)
          /\ ret' = Returned("save", ok, NoneV, FALSE)
          /\ excl' = ExclAtEnd(ok)
    /\ calls' = Remove(c)
    /\ UNCHANGED <<pathOk, loaded, cache, urlMate, single, winVars>>

(* ------------------------- load_credentials --------------------------- *)
\* lines 25-28: the command is invoked, builds the store and reads server_url
LoadCredentials ==
    /\ running
    /\ BagCardinality(calls) < MaxCalls
    /\ IF BuildOk
       THEN /\ loaded' = TRUE
            /\ cache' = OpenedCache
            /\ calls' = calls (+) SetToBag({Call("load_get_token",
                                                 AsStr(StoreGet(OpenedCache, "server_url")),
                                                 Absent, ~MutInFlight)})
            /\ ret' = NoRet
       ELSE /\ ret' = Returned("load", FALSE, NoneV, FALSE)
            /\ UNCHANGED <<loaded, cache, calls>>
    /\ UNCHANGED <<pathOk, fileExists, disk, excl, urlMate, single, winVars>>

\* lines 29-34: let api_token = store.get("api_token").and_then(..); match ..
LoadGetToken(c) ==
    /\ running
    /\ c.pc = "load_get_token"
    /\ ret' = Returned("load", TRUE,
                       MatchCredentials(c.url, AsStr(StoreGet(cache, "api_token"))),
                       c.clean)
    /\ calls' = Remove(c)
    /\ UNCHANGED <<pathOk, loaded, cache, fileExists, disk, excl, urlMate, single, winVars>>

(* ------------------------- clear_credentials -------------------------- *)
\* lines 38-40: the command is invoked, builds the store and clears it
ClearCredentials ==
    /\ running
    /\ BagCardinality(calls) < MaxCalls
    /\ IF BuildOk
       THEN /\ loaded' = TRUE
            /\ cache' = StoreClear(OpenedCache)
            /\ calls' = BagOfAll(Disturb, calls)
                          (+) SetToBag({Call("clear_flush", Absent, Absent, FALSE)})
            /\ excl' = ExclAtStart("clear", <<>>, <<>>)
            /\ single' = TRUE
            /\ ret' = NoRet
       ELSE /\ ret' = Returned("clear", FALSE, NoneV, FALSE)
            /\ UNCHANGED <<loaded, cache, calls, excl, single>>
    /\ UNCHANGED <<pathOk, fileExists, disk, urlMate, winVars>>

\* lines 41-42: store.save().map_err(..)?; Ok(())
ClearFlush(c) ==
    /\ running
    /\ c.pc = "clear_flush"
    /\ \E ok \in BOOLEAN :
          /\ StoreSave(ok)
          /\ ret' = Returned("clear", ok, NoneV, FALSE)
          /\ excl' = ExclAtEnd(ok)
    /\ calls' = Remove(c)
    /\ UNCHANGED <<pathOk, loaded, cache, urlMate, single, winVars>>

\* documents found in credentials.json at start: written by an earlier run, or
\* by hand with a key missing or holding a number
InitDocs == [Keys -> {Absent, NumVal, StrVal(Chars(0))}]

InitCred ==
    /\ pathOk \in BOOLEAN
    /\ loaded = FALSE
    /\ cache = EmptyDoc
    /\ fileExists \in BOOLEAN
    /\ disk \in (IF fileExists THEN InitDocs ELSE {EmptyDoc})
    /\ calls = EmptyBag
    /\ ret = NoRet
    /\ excl = NoExcl
    /\ urlMate = <<>>
    /\ single = TRUE

(* ---------------------------- main window ---------------------------- *)
\* One choice per event of which window calls the OS lets succeed (TRUE), and of
\* whether a focus request on a hidden window brings it up (platform dependent).
Fails == [is_visible : BOOLEAN, show : BOOLEAN, set_focus : BOOLEAN,
          hide : BOOLEAN, raises : BOOLEAN]

Win == [visible |-> visible, focused |-> focused]

\* window.show()
WinShow(w, ok) == IF ok THEN [w EXCEPT !.visible = TRUE] ELSE w

\* window.set_focus()
WinSetFocus(w, ok, raises) ==
    IF ~ok THEN w
    ELSE IF w.visible \/ raises THEN [visible |-> TRUE, focused |-> TRUE]
    ELSE w

\* window.hide(): a hidden window holds no input focus
WinHide(w, ok) == IF ok THEN [visible |-> FALSE, focused |-> FALSE] ELSE w

\* window.is_visible().unwrap_or(false)
IsVisibleOrFalse(w, ok) == IF ok THEN w.visible ELSE FALSE

\* result of a command or handler body: the window it leaves, the window calls
\* it attempted, whether one of them failed, whether it returned Err
Outcome(w, ops, failed, err) == [w |-> w, ops |-> ops, failed |-> failed, err |-> err]

\* `let _ = ...;` in a handler: the Result is dropped, nothing propagates
Propagate(failed) == failed
Discard(failed) == FALSE

\* lines 65-71: show_main_window
ShowMainWindow(ex, w, f) ==
    IF ~ex THEN Outcome(w, <<>>, FALSE, FALSE)
    ELSE IF ~f.show THEN Outcome(w, <<"show">>, TRUE, TRUE)
    ELSE IF ~f.set_focus
         THEN Outcome(WinShow(w, TRUE), <<"show", "set_focus">>, TRUE, TRUE)
         ELSE Outcome(WinSetFocus(WinShow(w, TRUE), TRUE, f.raises),
                      <<"show", "set_focus">>, FALSE, FALSE)

\* lines 74-79: hide_main_window
HideMainWindow(ex, w, f) ==
    IF ~ex THEN Outcome(w, <<>>, FALSE, FALSE)
    ELSE IF ~f.hide THEN Outcome(w, <<"hide">>, TRUE, TRUE)
    ELSE Outcome(WinHide(w, TRUE), <<"hide">>, FALSE, FALSE)

\* lines 122-127: menu item "show"
MenuShowWithoutFocus(ex, w, f) ==
    IF ~ex THEN Outcome(w, <<>>, FALSE, FALSE)
    ELSE Outcome(WinShow(w, f.show), <<"show">>, ~f.show, FALSE)
MenuShow(ex, w, f) ==
    IF ~ex THEN Outcome(w, <<>>, FALSE, FALSE)
    ELSE Outcome(WinSetFocus(WinShow(w, f.show), f.set_focus, f.raises),
                 <<"show", "set_focus">>,
                 ~f.show \/ ~f.set_focus,
                 Discard(~f.show \/ ~f.set_focus))

\* lines 128-132: menu item "hide"
MenuHide(ex, w, f) ==
    IF ~ex THEN Outcome(w, <<>>, FALSE, FALSE)
    ELSE Outcome(WinHide(w, f.hide), <<"hide">>, ~f.hide, Discard(~f.hide))

\* lines 108-115: tray icon left click, button up
ToggleWithoutFocus(ex, w, f) ==
    IF ~ex THEN Outcome(w, <<>>, FALSE, FALSE)
    ELSE IF IsVisibleOrFalse(w, f.is_visible)
         THEN Outcome(WinHide(w, f.hide), <<"is_visible", "hide">>,
                      ~f.is_visible \/ ~f.hide, FALSE)
         ELSE Outcome(WinShow(w, f.show), <<"is_visible", "show">>,
                      ~f.is_visible \/ ~f.show, FALSE)
ToggleMainWindow(ex, w, f) ==
    IF ~ex THEN Outcome(w, <<>>, FALSE, FALSE)
    ELSE IF IsVisibleOrFalse(w, f.is_visible)
         THEN Outcome(WinHide(w, f.hide), <<"is_visible", "hide">>,
                      ~f.is_visible \/ ~f.hide,
                      Discard(~f.is_visible \/ ~f.hide))
         ELSE Outcome(WinSetFocus(WinShow(w, f.show), f.set_focus, f.raises),
                      <<"is_visible", "show", "set_focus">>,
                      ~f.is_visible \/ ~f.show \/ ~f.set_focus,
                      Discard(~f.is_visible \/ ~f.show \/ ~f.set_focus))

\* lines 121-137: the menu ids the handler matches, and what the match runs
MenuIds == {"show", "hide", "quit", "other"}
ExitsOnQuitOrHide(id) == id \in {"quit", "hide"}
ExitsOn(id) == id = "quit"
MenuBody(id, ex, w, f) ==
    IF id = "show" THEN MenuShow(ex, w, f)
    ELSE IF id = "hide" THEN MenuHide(ex, w, f)
    ELSE Outcome(w, <<>>, FALSE, FALSE)

\* every window call succeeds
NoFail == [is_visible |-> TRUE, show |-> TRUE, set_focus |-> TRUE,
           hide |-> TRUE, raises |-> FALSE]

\* record of an event: the window it found, what the OS let succeed, the window
\* calls it attempted, the window it left, whether a call failed, whether the
\* body returned Err
NoEvent == [ev |-> "none", pre |-> [visible |-> FALSE, focused |-> FALSE], f |-> NoFail,
            ops |-> <<>>, post |-> [visible |-> FALSE, focused |-> FALSE],
            failed |-> FALSE, err |-> FALSE]
\* the OS behaviour a show or hide request (menu item or command) can meet; the
\* record of any other event, or of an event without a main window, keeps none
Met(ev, f) ==
    IF ~winExists THEN NoFail
    ELSE IF ev \in {"menu_show", "cmd_show"}
         THEN [NoFail EXCEPT !.show = f.show, !.set_focus = f.set_focus,
                             !.raises = f.raises]
    ELSE IF ev \in {"menu_hide", "cmd_hide"} THEN [NoFail EXCEPT !.hide = f.hide]
    ELSE NoFail
Event(ev, f, o) == [ev |-> ev, pre |-> Win, f |-> Met(ev, f), ops |-> o.ops, post |-> o.w,
                    failed |-> o.failed, err |-> o.err]

\* an event handler ran its body: a failure that propagated out of the closure
\* would unwind into the event loop and end the process
Handled(ev, f, o) ==
    /\ visible' = o.w.visible
    /\ focused' = o.w.focused
    /\ last' = Event(ev, f, o)
    /\ prev' = last
    /\ running' = ~o.err
    /\ exitCode' = IF o.err THEN <<101>> ELSE exitCode
    /\ UNCHANGED <<winExists, credVars>>

\* lines 100-119: on_tray_icon_event, Click { button: Left, button_state: Up }
TrayLeftClick ==
    /\ running
    /\ \E f \in Fails : Handled("tray_left_click", f, ToggleMainWindow(winExists, Win, f))

\* line 117: any other tray icon event
TrayOtherEvent ==
    /\ running
    /\ Handled("tray_other", NoFail, Outcome(Win, <<>>, FALSE, FALSE))

\* lines 120-138: on_menu_event
MenuEvent(id) ==
    /\ running
    /\ IF ExitsOn(id)
       THEN /\ running' = FALSE
            /\ exitCode' = <<0>>
            /\ last' = Event("menu_" \o id, NoFail, Outcome(Win, <<>>, FALSE, FALSE))
            /\ prev' = last
            /\ UNCHANGED <<winExists, visible, focused, credVars>>
       ELSE \E f \in Fails : Handled("menu_" \o id, f, MenuBody(id, winExists, Win, f))

\* a command returns its Result to the caller; the process goes on
Commanded(ev, f, o) ==
    /\ visible' = o.w.visible
    /\ focused' = o.w.focused
    /\ last' = Event(ev, f, o)
    /\ prev' = last
    /\ UNCHANGED <<winExists, running, exitCode, credVars>>

\* lines 64-71: command show_main_window
ShowMainWindowCmd ==
    /\ running
    /\ \E f \in Fails : Commanded("cmd_show", f, ShowMainWindow(winExists, Win, f))

\* lines 73-79: command hide_main_window
HideMainWindowCmd ==
    /\ running
    /\ \E f \in Fails : Commanded("cmd_hide", f, HideMainWindow(winExists, Win, f))

InitWin ==
    /\ winExists \in BOOLEAN
    /\ visible \in (IF winExists THEN BOOLEAN ELSE {FALSE})
    /\ focused = visible
    /\ running = TRUE
    /\ exitCode = <<>>
    /\ last = NoEvent
    /\ prev = NoEvent

InitWinMain ==
    /\ winExists = TRUE
    /\ visible = TRUE
    /\ focused = TRUE
    /\ running = TRUE
    /\ exitCode = <<>>
    /\ last = NoEvent
    /\ prev = NoEvent

InitCredFresh ==
    /\ pathOk = TRUE
    /\ loaded = FALSE
    /\ cache = EmptyDoc
    /\ fileExists = FALSE
    /\ disk = EmptyDoc
    /\ calls = EmptyBag
    /\ ret = NoRet
    /\ excl = NoExcl
    /\ urlMate = <<>>
    /\ single = TRUE

NextWin ==
    \/ TrayLeftClick
    \/ TrayOtherEvent
    \/ \E id \in MenuIds : MenuEvent(id)
    \/ ShowMainWindowCmd
    \/ HideMainWindowCmd

NextCred ==
    \/ \E u \in Strs, t \in Strs : SaveCredentials(u, t)
    \/ \E c \in BagToSet(calls) : SaveSetToken(c)
    \/ \E c \in BagToSet(calls) : SaveFlush(c)
    \/ LoadCredentials
    \/ \E c \in BagToSet(calls) : LoadGetToken(c)
    \/ ClearCredentials
    \/ \E c \in BagToSet(calls) : ClearFlush(c)

\* the credential commands, with the window left alone
InitCredOnly == InitCred /\ InitWinMain
SpecCred == InitCredOnly /\ [][NextCred]_vars

\* the tray, the menu and the window commands, with the store left alone
InitWinOnly == InitCredFresh /\ InitWin
SpecWin == InitWinOnly /\ [][NextWin]_vars

Init == InitCred /\ InitWin
Next == NextCred \/ NextWin
Spec == Init /\ [][Next]_vars

(* ====================== properties: credentials ======================= *)
\* A load that ran with no save or clear in flight from its start to its return
CleanLoad == ret.cmd = "load" /\ ret.clean
\* The latest save or clear ran with no other save or clear in flight, and none
\* has started since it completed
LatestAlone(cmd, status) == excl.cmd = cmd /\ excl.status = status

\* C1: a successful save_credentials(u, t) followed by load_credentials, with no
\* save or clear in between or overlapping either call, returns Some((u, t)),
\* the empty string included.
RoundTrip ==
    (CleanLoad /\ LatestAlone("save", "ok"))
        => (ret.ok /\ ret.val = SomeV(excl.url, excl.token))
RoundTripWitness ==
    /\ CleanLoad /\ LatestAlone("save", "ok")
    /\ excl.url = <<>> /\ excl.token = <<"x">>
    /\ ret.val.some

\* C2: once every concurrently dispatched save and clear has completed, what
\* load_credentials would return is None or the pair passed to one single save
\* call, never the url of one save with the token of another.
LastWriteWins ==
    (calls = EmptyBag /\ excl.cmd # "none" /\ LoadView(cache).some) => single

\* C3: load_credentials returns Some((url, token)) exactly when the document
\* holds a string under server_url and a string under api_token, and None when
\* either key is absent or holds another kind of value.
LoadSomeIffBothStrings ==
    (CleanLoad /\ ret.ok)
        => ret.val = IF cache["server_url"].kind = "str" /\ cache["api_token"].kind = "str"
                     THEN [some |-> TRUE, url |-> cache["server_url"].s,
                           token |-> cache["api_token"].s]
                     ELSE NoneV
LoadSomeIffBothStringsWitness ==
    /\ CleanLoad /\ ret.ok
    /\ cache["server_url"].kind = "str"
    /\ cache["api_token"].kind \in {"absent", "num"}
    /\ ~ret.val.some

\* C4: after a successful clear_credentials, load_credentials returns None until
\* the next save_credentials, whatever saves and clears came before the clear.
ClearThenLoadNone ==
    (CleanLoad /\ LatestAlone("clear", "ok")) => (ret.ok /\ ret.val = NoneV)
ClearThenLoadNoneWitness ==
    CleanLoad /\ LatestAlone("clear", "ok") /\ fileExists /\ ret.val = NoneV

\* C5: load_credentials on a document that was never created (no file, and no
\* save or clear ever started) returns Ok(None); load_credentials returns an
\* error only when the store cannot be opened.
LoadNeverCreated ==
    /\ (ret.cmd = "load" /\ ~fileExists /\ excl.cmd = "none" /\ pathOk)
          => (ret.ok /\ ret.val = NoneV)
    /\ (ret.cmd = "load" /\ ~ret.ok) => ~pathOk
LoadNeverCreatedWitness ==
    ret.cmd = "load" /\ ~fileExists /\ excl.cmd = "none" /\ pathOk /\ ret.ok

\* C9: when the flush of save_credentials fails, the record that
\* load_credentials observes afterwards is the one from before the call.
FailedSaveLosesBoth ==
    (CleanLoad /\ ret.ok /\ LatestAlone("save", "err")) => ret.val = excl.pre

(* ======================== properties: window ========================== *)
HandlerEvents == {"tray_left_click", "tray_other"} \cup {"menu_" \o id : id \in MenuIds}
Click(e) == e.ev = "tray_left_click"

\* C6 as stated: a left click always toggles the window, and two consecutive
\* left clicks restore its visibility.
ToggleAlways ==
    /\ (winExists /\ Click(last))
          => (visible = ~last.pre.visible /\ (visible => focused))
    /\ (winExists /\ Click(last) /\ Click(prev)) => visible = prev.pre.visible

\* C6 amended: when every window call the handler makes succeeds, a left click
\* makes a hidden window visible and focused and a visible window hidden, and
\* two consecutive such left clicks restore the visibility.
ToggleWhenCallsSucceed ==
    /\ (winExists /\ Click(last) /\ ~last.failed)
          => (visible = ~last.pre.visible /\ (visible => focused))
    /\ (winExists /\ Click(last) /\ ~last.failed /\ Click(prev) /\ ~prev.failed)
          => visible = prev.pre.visible
ToggleWhenCallsSucceedWitness ==
    /\ winExists /\ Click(last) /\ ~last.failed /\ Click(prev) /\ ~prev.failed
    /\ ~prev.pre.visible /\ last.pre.visible /\ ~visible

\* C7: selecting "quit" ends the process with exit code 0 in every window
\* state, and no other tray or menu event ends it.
QuitExitsZero ==
    /\ last.ev = "menu_quit" => (~running /\ exitCode = <<0>>)
    /\ ~running => (last.ev = "menu_quit" /\ exitCode = <<0>>)
    /\ running => ENABLED MenuEvent("quit")
QuitExitsZeroWitness ==
    ~running /\ last.ev = "menu_quit" /\ winExists /\ ~visible

\* C8: a tray or menu handler in which a window call fails still completes, the
\* process keeps running and later tray and menu events are handled.
HandlersNeverPropagate ==
    (last.ev \in HandlerEvents \ {"menu_quit"})
        => (~last.err /\ running /\ exitCode = <<>> /\ ENABLED TrayLeftClick
            /\ \A id \in MenuIds : ENABLED MenuEvent(id))
HandlersNeverPropagateWitness ==
    /\ prev.ev = "menu_show" /\ prev.failed
    /\ Click(last) /\ last.failed
    /\ running

\* the menu item `item` and the command `cmd` were handled one after the other,
\* in either order, from the same window under the same OS behaviour
SameCase(item, cmd) ==
    /\ {last.ev, prev.ev} = {item, cmd}
    /\ last.pre = prev.pre
    /\ last.f = prev.f

\* C10 as stated: from any window state and any choice of failing window calls,
\* the menu items "show" and "hide" attempt the same window calls and leave the
\* same visibility and focus as the commands show_main_window and
\* hide_main_window.
MenuMatchesCommand ==
    \A pair \in {<<"menu_show", "cmd_show">>, <<"menu_hide", "cmd_hide">>} :
        SameCase(pair[1], pair[2]) => (last.ops = prev.ops /\ last.post = prev.post)

\* C10 amended: "hide" and hide_main_window always attempt the same call and
\* leave the same window, and so do "show" and show_main_window unless show()
\* fails; when show() fails the command stops after it, while the handler still
\* attempts set_focus.  The handler never returns the failure, the command does.
MenuMatchesCommandUnlessShowFails ==
    /\ SameCase("menu_hide", "cmd_hide") => (last.ops = prev.ops /\ last.post = prev.post)
    /\ (SameCase("menu_show", "cmd_show") /\ (last.f.show \/ ~winExists))
          => (last.ops = prev.ops /\ last.post = prev.post)
    /\ (winExists /\ last.ev = "cmd_show" /\ ~last.f.show) => last.ops = <<"show">>
    /\ (winExists /\ last.ev = "menu_show" /\ ~last.f.show)
          => last.ops = <<"show", "set_focus">>
    /\ last.ev \in {"menu_show", "menu_hide"} => ~last.err
    /\ last.ev \in {"cmd_show", "cmd_hide"} => last.err = last.failed
    /\ \A f \in Fails :
          /\ MenuHide(winExists, Win, f).ops = HideMainWindow(winExists, Win, f).ops
          /\ MenuHide(winExists, Win, f).w = HideMainWindow(winExists, Win, f).w
          /\ (f.show \/ ~winExists) =>
                /\ MenuShow(winExists, Win, f).ops = ShowMainWindow(winExists, Win, f).ops
                /\ MenuShow(winExists, Win, f).w = ShowMainWindow(winExists, Win, f).w
MenuMatchesCommandUnlessShowFailsWitness ==
    /\ winExists
    /\ SameCase("menu_show", "cmd_show")
    /\ last.ev = "menu_show"
    /\ last.f.show /\ ~last.f.set_focus
    /\ last.pre.visible
    /\ last.ops = <<"show", "set_focus">> /\ prev.ops = last.ops
    /\ prev.err /\ ~last.err

====
